---- MODULE Spec2Model ----
(***************************************************************************)
(* Model of backend/main.py, the YOLOv8 detection API: the startup hook    *)
(* load_model, and the two request handlers detect_objects (POST /detect)  *)
(* and detect_objects_json (POST /detect-json).                            *)
(*                                                                         *)
(* Real numbers are integers in units of 1/10000 (a confidence of 0.9104   *)
(* is 9104); a three-decimal string is the integer number of thousandths.  *)
(* Byte strings and pixel buffers are sequences of naturals.               *)
(***************************************************************************)
EXTENDS Integers, Sequences, FiniteSets, TLC

\* Number of request slots the server runtime handles concurrently.
NumRequests == 2
\* Largest number of boxes the engine returns for one image.
MaxDet == 2

Requests == 1..NumRequests

----------------------------------------------------------------------------
(* Inputs *)

\* The content types the handlers accept (the list literal of both handlers).
SupportedTypes == {"image/jpeg", "image/png", "image/jpg"}

\* Declared content types of the uploads that clients send.
UploadTypes == {"image/jpeg", "image/png", "image/jpg", "image/gif"}

\* Upload payloads: a JPEG stream, a PNG stream and an unreadable one.
JpegBytes == <<255, 7>>
PngBytes == <<137, 9>>
CorruptBytes == <<0>>
Payloads == {JpegBytes, PngBytes, CorruptBytes}

\* Values of the query parameter `confidence` that pass Query(ge=0.0, le=1.0).
Thresholds == {0, 2500}

Endpoints == {"/detect", "/detect-json"}

\* The engine's class table, results[0].names.
names == (0 :> "coyote") @@ (1 :> "dog")

\* Boxes the engine can report: class id, confidence, xyxy corners.
RawPool ==
    { [cls |-> 0, conf |-> 9104, xyxy |-> <<1, 1, 5, 5>>],
      [cls |-> 1, conf |-> 2003, xyxy |-> <<3, 3, 4, 4>>],
      [cls |-> 1, conf |-> 0,    xyxy |-> <<2, 2, 6, 6>>] }

\* Wall-clock durations (datetime.now() - start_time) a request can measure.
Elapsed == {1236}

\* The requests clients send: endpoint, multipart file, query parameter.
Uploads ==
    [endpoint : Endpoints, filename : {"upload.img"}, content_type : UploadTypes,
     contents : Payloads, confidence : Thresholds]

\* The requests of the concurrent runs: readable uploads at the default
\* threshold, of a supported and of an unsupported type.
ConcurrentUploads ==
    {u \in Uploads : /\ u.contents = JpegBytes
                     /\ u.confidence = 2500
                     /\ u.content_type \in {"image/png", "image/gif"}}

EmptyMap == [k \in {} |-> ""]

NoUpload == [endpoint |-> "", filename |-> "", content_type |-> "",
             contents |-> <<>>, confidence |-> 0]

NoResponse == [status |-> 0, media_type |-> "", headers |-> EmptyMap,
               body |-> <<>>, json |-> EmptyMap]

----------------------------------------------------------------------------
VARIABLES
    phase,       \* lifecycle of the process: "starting", "serving", "failed"
    model,       \* global model: "None" or the weights file it was built from
    device,      \* global device: "None", "cuda" or "cpu"
    pc,          \* per request: "idle", "start", "reading", "done"
    upload,      \* per request: the request as the client sent it
    did,         \* per request: what the handler has done so far
    raw,         \* per request: the boxes the engine returned
    result,      \* per request: detection_count, max_confidence, detections_list
    resp         \* per request: the response delivered to the client

vars == <<phase, model, device, pc, upload, did, raw, result, resp>>

\* read: file.read() returned; decoded: the image was opened; predicts: calls
\* of model.predict; raised: the exception the try block ended with, "" if none;
\* responses: responses sent.
NothingDone == [read |-> FALSE, decoded |-> FALSE, predicts |-> 0, raised |-> "",
                responses |-> 0]

\* The handlers' locals before the aggregation runs.
NoResult == [detection_count |-> 0, max_confidence |-> 0, detections_list |-> <<>>]

Init ==
    /\ phase = "starting"
    /\ model = "None"
    /\ device = "None"
    /\ pc = [r \in Requests |-> "idle"]
    /\ upload = [r \in Requests |-> NoUpload]
    /\ did = [r \in Requests |-> NothingDone]
    /\ raw = [r \in Requests |-> <<>>]
    /\ result = [r \in Requests |-> NoResult]
    /\ resp = [r \in Requests |-> NoResponse]

----------------------------------------------------------------------------
(* Helpers standing for the library routines the handlers call *)

\* Image.open(io.BytesIO(contents)) followed by convert('RGB'): succeeds on a
\* stream that starts with a JPEG (255) or PNG (137) marker, raises otherwise.
CanDecode(contents) == Len(contents) > 0 /\ Head(contents) \in {255, 137}

\* The decoded RGB pixel buffer.
Decode(contents) == Tail(contents)

\* results[0].plot() then cv2.cvtColor: the pixel buffer with one mark per box.
Plot(image, boxes) == image \o [i \in 1..Len(boxes) |-> boxes[i].cls + 100]

\* annotated_image.save(img_byte_arr, format='PNG').
EncodePNG(pixels) == <<137>> \o pixels

\* base64.b64encode(...).decode('utf-8'), behind a data-URI media type.
DataURI(media, bytes) == [media |-> media, base64 |-> [i \in 1..Len(bytes) |-> bytes[i] + 1000]]

\* f"{x:.3f}": the number of thousandths nearest to x (x in 1/10000).
Fmt3(x) == (x + 5) \div 10

\* str(detection_count > 0).lower()
LowerStr(b) == IF b THEN "true" ELSE "false"

\* What model.predict(source=image, conf=confidence, ...) can do: raise, or
\* return up to MaxDet boxes, each with a confidence that meets the threshold,
\* in an order of the engine's choosing.
BoxSeqs(confidence) ==
    UNION { [1..n -> {b \in RawPool : b.conf >= confidence}] : n \in 0..MaxDet }

EngineOutcomes(confidence) ==
    {[ok |-> FALSE, boxes |-> <<>>]}
       \cup {[ok |-> TRUE, boxes |-> b] : b \in BoxSeqs(confidence)}

----------------------------------------------------------------------------
(* Startup *)

\* AfterStartup as it would be if load_model logged the failure without raising.
AfterStartupIgnoringFailure(loaded) == "serving"

\* The except/raise of load_model under the server's lifespan protocol: a
\* startup hook that raises makes the server exit instead of serving.
AfterStartup(loaded) == IF loaded THEN "serving" ELSE "failed"

load_model ==
    /\ phase = "starting"
    /\ \E cuda \in BOOLEAN, best \in BOOLEAN, pretrained \in BOOLEAN, moved \in BOOLEAN :
         /\ device' = IF cuda THEN "cuda" ELSE "cpu"
         /\ model' = IF best THEN "best.pt"
                     ELSE IF pretrained THEN "yolov8n.pt" ELSE model
         /\ phase' = AfterStartup((best \/ pretrained) /\ moved)
    /\ UNCHANGED <<pc, upload, did, raw, result, resp>>

\* The server hands a POST request to its handler; it does so only once the
\* startup hooks have returned.  A slot whose response has been delivered is
\* free for the next request, which starts with fresh locals.
Accept(r, requests) ==
    /\ phase = "serving"
    /\ pc[r] \in {"idle", "done"}
    /\ \E u \in requests : upload' = [upload EXCEPT ![r] = u]
    /\ pc' = [pc EXCEPT ![r] = "start"]
    /\ did' = [did EXCEPT ![r] = NothingDone]
    /\ raw' = [raw EXCEPT ![r] = <<>>]
    /\ result' = [result EXCEPT ![r] = NoResult]
    /\ resp' = [resp EXCEPT ![r] = NoResponse]
    /\ UNCHANGED <<phase, model, device>>

----------------------------------------------------------------------------
(* Aggregation of results[0].boxes, the same in both handlers *)

RECURSIVE SeqMax(_)
\* confidences.max()
SeqMax(s) ==
    IF Len(s) = 1 THEN s[1]
    ELSE LET m == SeqMax(Tail(s)) IN IF s[1] >= m THEN s[1] ELSE m

\* boxes.conf.cpu().numpy()
Confidences(boxes) == [i \in 1..Len(boxes) |-> boxes[i].conf]

\* DetectionsList as it would be if the loop ran from the last box to the first.
DetectionsListReversed(boxes) ==
    [i \in 1..Len(boxes) |->
        [class |-> names[boxes[Len(boxes) + 1 - i].cls],
         confidence |-> boxes[Len(boxes) + 1 - i].conf,
         bbox |-> boxes[Len(boxes) + 1 - i].xyxy]]

\* The loop that fills detections_list.
DetectionsList(boxes) ==
    [i \in 1..Len(boxes) |->
        [class |-> names[boxes[i].cls],
         confidence |-> boxes[i].conf,
         bbox |-> boxes[i].xyxy]]

\* detection_count, 0 unless `len(boxes) > 0`.
DetectionCount(boxes) == IF Len(boxes) > 0 THEN Len(boxes) ELSE 0

\* MaxConfidence as it would be if it took the first box for the best one.
MaxConfidenceOfFirst(boxes) == IF Len(boxes) > 0 THEN boxes[1].conf ELSE 0

\* max_confidence, 0.0 unless `len(boxes) > 0`.
MaxConfidence(boxes) == IF Len(boxes) > 0 THEN SeqMax(Confidences(boxes)) ELSE 0

\* The three locals after the `if boxes is not None and len(boxes) > 0` block.
Aggregate(boxes) ==
    [detection_count |-> DetectionCount(boxes),
     max_confidence |-> MaxConfidence(boxes),
     detections_list |-> DetectionsList(boxes)]

----------------------------------------------------------------------------
(* Responses *)

\* Headers as it would be if the score were set only inside the detection branch.
HeadersScoreWhenFound(detection_count, max_confidence, processing_time) ==
    IF detection_count > 0
    THEN ("X-Objects-Found" :> "true")
         @@ ("X-Detections" :> detection_count)
         @@ ("X-Confidence-Score" :> Fmt3(max_confidence))
         @@ ("X-Processing-Time" :> Fmt3(processing_time))
    ELSE ("X-Objects-Found" :> "false")
         @@ ("X-Detections" :> 0)
         @@ ("X-Processing-Time" :> Fmt3(processing_time))

\* The headers dict of detect_objects.
Headers(detection_count, max_confidence, processing_time) ==
    ("X-Objects-Found" :> LowerStr(detection_count > 0))
    @@ ("X-Detections" :> detection_count)
    @@ ("X-Confidence-Score" :> Fmt3(max_confidence))
    @@ ("X-Processing-Time" :> Fmt3(processing_time))
    @@ ("Access-Control-Expose-Headers" :>
          {"X-Objects-Found", "X-Detections", "X-Confidence-Score", "X-Processing-Time"})

\* OriginalBody as it would be if the no-detection response had an empty body.
OriginalBodyEmpty(contents) == <<>>

\* The body of the no-detection StreamingResponse: io.BytesIO(contents).
OriginalBody(contents) == contents

\* Annotates as it would be if the branch tested the score instead of the count.
AnnotatesWhenConfident(a) == a.max_confidence > 0

\* `if detection_count > 0:`, the branch to the annotated image.
Annotates(a) == a.detection_count > 0

\* The two StreamingResponse returns of detect_objects.
DetectResponse(u, boxes, a, processing_time) ==
    LET headers == Headers(a.detection_count, a.max_confidence, processing_time)
    IN  IF Annotates(a)
        THEN [status |-> 200, media_type |-> "image/png", headers |-> headers,
              body |-> EncodePNG(Plot(Decode(u.contents), boxes)), json |-> EmptyMap]
        ELSE [status |-> 200, media_type |-> u.content_type, headers |-> headers,
              body |-> OriginalBody(u.contents), json |-> EmptyMap]

\* `except Exception as e: raise HTTPException(500, f"Processing failed: {str(e)}")`
\* as the framework renders it.
DetectFailure(e) ==
    [status |-> 500, media_type |-> "application/json", headers |-> EmptyMap,
     body |-> <<>>, json |-> ("detail" :> <<"Processing failed: ", e>>)]

\* The JSONResponse(status_code=400, ...) of detect_objects_json.
JsonInvalidType ==
    [status |-> 400, media_type |-> "application/json", headers |-> EmptyMap,
     body |-> <<>>, json |-> ("error" :> "Invalid file type. Use JPEG or PNG")]

\* JsonFailure as it would be if the except clause raised like detect_objects.
JsonFailureAsHttpError(e) ==
    [status |-> 500, media_type |-> "application/json", headers |-> EmptyMap,
     body |-> <<>>, json |-> ("detail" :> <<"Processing failed: ", e>>)]

\* The dict detect_objects_json returns from its except clause.
JsonFailure(e) ==
    [status |-> 200, media_type |-> "application/json", headers |-> EmptyMap,
     body |-> <<>>, json |-> ("success" :> FALSE) @@ ("error" :> e)]

\* The dict detect_objects_json returns on success.
JsonResponse(u, boxes, a, processing_time) ==
    [status |-> 200, media_type |-> "application/json", headers |-> EmptyMap,
     body |-> <<>>,
     json |-> ("success" :> TRUE)
          @@ ("objects_found" :> (a.detection_count > 0))
          @@ ("detection_count" :> a.detection_count)
          @@ ("max_confidence" :> a.max_confidence)
          @@ ("processing_time" :> processing_time)
          @@ ("detections" :> a.detections_list)
          @@ ("filename" :> u.filename)
          @@ ("image_base64" :>
                IF a.detection_count > 0
                THEN DataURI("image/png", EncodePNG(Plot(Decode(u.contents), boxes)))
                ELSE DataURI(u.content_type, u.contents))]

----------------------------------------------------------------------------
(* The handlers.  Each runs without yielding except at `await file.read()`, *)
(* so it is two steps: up to the await, and from the await to the response. *)

\* ContentTypeOk as it would be if the check let every upload through.
ContentTypeOkAnything(ct) == ct \in SupportedTypes \cup UploadTypes

\* `file.content_type not in [...]` negated.
ContentTypeOk(ct) == ct \in SupportedTypes

\* PredictCalls as it would be if a failed prediction were tried once more.
PredictCallsWithRetry(decodes, loaded, engine) ==
    IF decodes /\ loaded THEN (IF engine.ok THEN 1 ELSE 2) ELSE 0

\* The number of model.predict calls of one run of the try block.
PredictCalls(decodes, loaded, engine) == IF decodes /\ loaded THEN 1 ELSE 0

\* The exception the try block ends with after the await, "" when it ends with
\* a return: Image.open fails, model is None, predict fails, or plot/save fails.
Raised(decodes, loaded, engine, plots) ==
    IF ~decodes THEN "UnidentifiedImageError"
    ELSE IF ~loaded THEN "AttributeError"
    ELSE IF ~engine.ok THEN "InferenceError"
    ELSE IF DetectionCount(engine.boxes) > 0 /\ ~plots THEN "RenderError"
    ELSE ""

\* The handler's return or raise reaching the client.
Respond(r, response) ==
    /\ resp' = [resp EXCEPT ![r] = response]
    /\ pc' = [pc EXCEPT ![r] = "done"]

\* Lines of the try block from `contents = await file.read()` to the
\* aggregation, the same in both handlers.
RunPipeline(r, engine, plots) ==
    LET u == upload[r]
        decodes == CanDecode(u.contents)
        loaded == model /= "None"
        calls == PredictCalls(decodes, loaded, engine)
        returned == calls > 0 /\ engine.ok
    IN  /\ did' = [did EXCEPT ![r] =
                     [read |-> TRUE, decoded |-> decodes,
                      predicts |-> @.predicts + calls,
                      raised |-> Raised(decodes, loaded, engine, plots),
                      responses |-> @.responses + 1]]
        /\ raw' = [raw EXCEPT ![r] = IF returned THEN engine.boxes ELSE <<>>]
        /\ result' = [result EXCEPT ![r] =
                        IF returned THEN Aggregate(engine.boxes) ELSE NoResult]

detect_objects_begin(r) ==
    /\ pc[r] = "start"
    /\ upload[r].endpoint = "/detect"
    /\ IF ContentTypeOk(upload[r].content_type)
       THEN /\ pc' = [pc EXCEPT ![r] = "reading"]
            /\ UNCHANGED <<did, resp>>
       ELSE /\ Respond(r, DetectFailure("400: Invalid file type. Use JPEG or PNG"))
            /\ did' = [did EXCEPT ![r].raised = "HTTPException",
                                  ![r].responses = @ + 1]
    /\ UNCHANGED <<phase, model, device, upload, raw, result>>

detect_objects_resume(r) ==
    /\ pc[r] = "reading"
    /\ upload[r].endpoint = "/detect"
    /\ \E engine \in EngineOutcomes(upload[r].confidence), plots \in BOOLEAN, t \in Elapsed :
         /\ RunPipeline(r, engine, plots)
         /\ Respond(r, IF did'[r].raised = ""
                       THEN DetectResponse(upload[r], engine.boxes, result'[r], t)
                       ELSE DetectFailure(did'[r].raised))
    /\ UNCHANGED <<phase, model, device, upload>>

detect_objects_json_begin(r) ==
    /\ pc[r] = "start"
    /\ upload[r].endpoint = "/detect-json"
    /\ IF ContentTypeOk(upload[r].content_type)
       THEN /\ pc' = [pc EXCEPT ![r] = "reading"]
            /\ UNCHANGED <<did, resp>>
       ELSE /\ Respond(r, JsonInvalidType)
            /\ did' = [did EXCEPT ![r].responses = @ + 1]
    /\ UNCHANGED <<phase, model, device, upload, raw, result>>

detect_objects_json_resume(r) ==
    /\ pc[r] = "reading"
    /\ upload[r].endpoint = "/detect-json"
    /\ \E engine \in EngineOutcomes(upload[r].confidence), plots \in BOOLEAN, t \in Elapsed :
         /\ RunPipeline(r, engine, plots)
         /\ Respond(r, IF did'[r].raised = ""
                       THEN JsonResponse(upload[r], engine.boxes, result'[r], t)
                       ELSE JsonFailure(did'[r].raised))
    /\ UNCHANGED <<phase, model, device, upload>>

\* One request from its acceptance to its response.
Serve(r, requests) ==
    \/ Accept(r, requests)
    \/ detect_objects_begin(r)
    \/ detect_objects_resume(r)
    \/ detect_objects_json_begin(r)
    \/ detect_objects_json_resume(r)

\* The service taking one request after another, over every upload.
Next ==
    \/ load_model
    \/ Serve(1, Uploads)

Spec == Init /\ [][Next]_vars

\* The service handling NumRequests requests at once, their steps interleaved
\* at the await points, over the uploads of ConcurrentUploads.
ConcurrentNext ==
    \/ load_model
    \/ \E r \in Requests : Serve(r, ConcurrentUploads)

ConcurrentSpec == Init /\ [][ConcurrentNext]_vars

----------------------------------------------------------------------------
(* Properties *)

Done(r) == pc[r] = "done"

Has(f, k) == k \in DOMAIN f

DetectionHeaders ==
    {"X-Objects-Found", "X-Detections", "X-Confidence-Score", "X-Processing-Time"}

\* The request's upload has a content type outside the accepted list.
Unsupported(r) ==
    upload[r].content_type \notin {"image/jpeg", "image/png", "image/jpg"}

\* The handler of request r got past the engine call and aggregated its boxes.
Aggregated(r) ==
    Done(r) /\ did[r].predicts > 0 /\ did[r].raised \in {"", "RenderError"}

\* A /detect request answered with a StreamingResponse.
DetectSucceeded(r) ==
    Done(r) /\ upload[r].endpoint = "/detect" /\ resp[r].status = 200

\* C1: a POST /detect whose upload content type is not accepted is answered
\* with a 4xx status, never with a 5xx one.
C1_UnsupportedTypeIsClientError ==
    \A r \in Requests :
        (Done(r) /\ upload[r].endpoint = "/detect" /\ Unsupported(r))
            => resp[r].status \in 400..499

\* C2 as stated: whatever fails inside /detect-json (unsupported content type,
\* decode, inference, render), the answer is no error status but a JSON body
\* with success = false and an error message.
C2_JsonNeverErrorStatus ==
    \A r \in Requests :
        (Done(r) /\ upload[r].endpoint = "/detect-json"
                 /\ (Unsupported(r) \/ did[r].raised /= ""))
            => /\ resp[r].status \notin 400..599
               /\ Has(resp[r].json, "success")
               /\ resp[r].json["success"] = FALSE
               /\ Has(resp[r].json, "error")

\* C2 amended: an exception inside /detect-json (decode, inference, render) is
\* answered with status 200 and {success: false, error: <the exception>}; an
\* unsupported content type is answered with status 400 and a body {error}
\* that has no success field.
C2_JsonFailureReporting ==
    \A r \in Requests :
        (Done(r) /\ upload[r].endpoint = "/detect-json")
            => /\ did[r].raised /= ""
                   => /\ resp[r].status = 200
                      /\ Has(resp[r].json, "success")
                      /\ resp[r].json["success"] = FALSE
                      /\ Has(resp[r].json, "error")
                      /\ resp[r].json["error"] = did[r].raised
               /\ Unsupported(r)
                   => /\ resp[r].status = 400
                      /\ ~Has(resp[r].json, "success")
                      /\ Has(resp[r].json, "error")

C2_Witness ==
    \E r \in Requests :
        /\ Done(r) /\ upload[r].endpoint = "/detect-json"
        /\ did[r].raised = "RenderError"
        /\ resp[r].status = 200

\* C3 as stated: a successful /detect response carries X-Confidence-Score
\* only when a detection exists; a no-detection response carries the other
\* three headers and no X-Confidence-Score.
C3_ScoreHeaderOnlyWithDetections ==
    \A r \in Requests :
        DetectSucceeded(r)
            => /\ Has(resp[r].headers, "X-Confidence-Score") <=> Len(raw[r]) > 0
               /\ {"X-Objects-Found", "X-Detections", "X-Processing-Time"}
                      \subseteq DOMAIN resp[r].headers

\* C3 amended: every successful /detect response carries all four of
\* X-Objects-Found, X-Detections, X-Confidence-Score and X-Processing-Time;
\* without detections X-Confidence-Score is present with the value 0.000.
C3_ScoreHeaderAlways ==
    \A r \in Requests :
        DetectSucceeded(r)
            => /\ DetectionHeaders \subseteq DOMAIN resp[r].headers
               /\ Len(raw[r]) = 0 => resp[r].headers["X-Confidence-Score"] = 0

C3_Witness ==
    \E r \in Requests :
        /\ DetectSucceeded(r)
        /\ did[r].predicts = 1
        /\ Len(raw[r]) = 0
        /\ Has(resp[r].headers, "X-Confidence-Score")

\* C4 as stated: the aggregated result has max_confidence = 0.0 exactly when
\* detection_count = 0, and with detections max_confidence is the largest of
\* their confidences.
C4_MaxZeroIffNoDetections ==
    \A r \in Requests :
        Aggregated(r)
            => /\ result[r].max_confidence = 0 <=> result[r].detection_count = 0
               /\ result[r].detection_count > 0
                   => /\ \E i \in 1..Len(raw[r]) : raw[r][i].conf = result[r].max_confidence
                      /\ \A i \in 1..Len(raw[r]) : raw[r][i].conf <= result[r].max_confidence

\* C4 amended: detection_count = 0 implies max_confidence = 0.0; with
\* detections max_confidence is the largest of their confidences, so it is 0.0
\* exactly when there is no detection or every detection has confidence 0.0.
C4_MaxConfidence ==
    \A r \in Requests :
        Aggregated(r)
            => /\ result[r].detection_count = 0 => result[r].max_confidence = 0
               /\ result[r].detection_count > 0
                   => /\ \E i \in 1..Len(raw[r]) : raw[r][i].conf = result[r].max_confidence
                      /\ \A i \in 1..Len(raw[r]) : raw[r][i].conf <= result[r].max_confidence
               /\ result[r].max_confidence = 0
                   <=> \A i \in 1..Len(raw[r]) : raw[r][i].conf = 0

C4_Witness ==
    \E r \in Requests :
        /\ Aggregated(r)
        /\ upload[r].confidence = 0
        /\ result[r].detection_count = 2
        /\ raw[r][1].conf < raw[r][2].conf
        /\ result[r].max_confidence = raw[r][2].conf

\* C5: a /detect request of a supported content type whose engine result
\* holds no detection is answered with the uploaded bytes as the body and the
\* upload's declared content type as the media type.
C5_NoDetectionRoundTrip ==
    \A r \in Requests :
        (Done(r) /\ upload[r].endpoint = "/detect" /\ ~Unsupported(r)
                 /\ did[r].predicts > 0 /\ did[r].raised = "" /\ Len(raw[r]) = 0)
            => /\ resp[r].body = upload[r].contents
               /\ resp[r].media_type = upload[r].content_type

C5_Witness ==
    \E r \in Requests :
        /\ Done(r) /\ upload[r].endpoint = "/detect"
        /\ upload[r].content_type = "image/jpeg"
        /\ upload[r].contents = JpegBytes
        /\ did[r].predicts = 1 /\ did[r].raised = "" /\ Len(raw[r]) = 0
        /\ resp[r].status = 200

\* C6: in both handlers detections_list has one entry per box the engine
\* returned, in the engine's order, none added, dropped or moved, and
\* detection_count is the number of boxes; the responses report the same.
C6_OneEntryPerRawDetection ==
    \A r \in Requests :
        Aggregated(r)
            => /\ Len(result[r].detections_list) = Len(raw[r])
               /\ result[r].detection_count = Len(raw[r])
               /\ \A i \in 1..Len(raw[r]) :
                      /\ result[r].detections_list[i].confidence = raw[r][i].conf
                      /\ result[r].detections_list[i].bbox = raw[r][i].xyxy
                      /\ result[r].detections_list[i].class = names[raw[r][i].cls]
               /\ (upload[r].endpoint = "/detect-json" /\ did[r].raised = "")
                   => /\ resp[r].json["detections"] = result[r].detections_list
                      /\ resp[r].json["detection_count"] = Len(raw[r])
               /\ (upload[r].endpoint = "/detect" /\ did[r].raised = "")
                   => resp[r].headers["X-Detections"] = Len(raw[r])

C6_Witness ==
    \E r \in Requests :
        /\ Aggregated(r)
        /\ upload[r].endpoint = "/detect-json"
        /\ did[r].raised = ""
        /\ Len(raw[r]) = 2
        /\ raw[r][1].conf < raw[r][2].conf
        /\ Len(resp[r].json["detections"]) = 2

\* The body is the PNG encoding of the upload's pixels with the boxes drawn.
IsAnnotatedBody(r) ==
    /\ Len(raw[r]) > 0
    /\ resp[r].body = <<137>> \o Tail(upload[r].contents)
                          \o [i \in 1..Len(raw[r]) |-> raw[r][i].cls + 100]

\* C7: the outcome of a successful /detect follows the detection count alone:
\* with detections the body is the annotated PNG, X-Objects-Found is true and
\* X-Detections is the count; without, X-Objects-Found is false and
\* X-Detections is 0; never X-Objects-Found=true with X-Detections=0, nor
\* X-Objects-Found=false with an annotated body.
C7_OutcomeFollowsCount ==
    \A r \in Requests :
        DetectSucceeded(r)
            => /\ Len(raw[r]) > 0
                   => /\ resp[r].media_type = "image/png"
                      /\ IsAnnotatedBody(r)
                      /\ resp[r].headers["X-Objects-Found"] = "true"
                      /\ resp[r].headers["X-Detections"] = Len(raw[r])
               /\ Len(raw[r]) = 0
                   => /\ resp[r].headers["X-Objects-Found"] = "false"
                      /\ resp[r].headers["X-Detections"] = 0
               /\ ~(resp[r].headers["X-Objects-Found"] = "true"
                      /\ resp[r].headers["X-Detections"] = 0)
               /\ ~(resp[r].headers["X-Objects-Found"] = "false" /\ IsAnnotatedBody(r))

C7_Witness ==
    \E r \in Requests :
        /\ DetectSucceeded(r)
        /\ Len(raw[r]) = 2
        /\ result[r].max_confidence = 0
        /\ resp[r].media_type = "image/png"
        /\ resp[r].headers["X-Objects-Found"] = "true"

\* C8: a request is in the hands of a handler only after load_model has set
\* model and device and returned; the engine is never called without a model;
\* after a failed load no request is ever accepted.
C8_NoRequestBeforeModelLoaded ==
    \A r \in Requests :
        /\ pc[r] /= "idle" => (phase = "serving" /\ model /= "None" /\ device /= "None")
        /\ did[r].predicts > 0 => (model /= "None" /\ device /= "None")
        /\ phase \in {"starting", "failed"} => (pc[r] = "idle" /\ did[r] = NothingDone)

C8_Witness ==
    \E r \in Requests :
        /\ did[r].predicts = 1
        /\ Done(r)
        /\ model = "yolov8n.pt"
        /\ phase = "serving"

\* The response reports a failure and nothing of a result.
IsBareFailure(r) ==
    /\ resp[r].headers = EmptyMap
    /\ resp[r].body = <<>>
    /\ DOMAIN resp[r].json \in {{"detail"}, {"success", "error"}}

\* C9: every accepted request, however its steps interleave with those of
\* other requests, calls the engine at most once and ends with exactly one
\* response; an inference or render failure is not retried and its response
\* carries no part of a result.
C9_OneCallOneResponse ==
    \A r \in Requests :
        /\ did[r].predicts <= 1
        /\ did[r].responses <= 1
        /\ Done(r) <=> did[r].responses = 1
        /\ Done(r) <=> resp[r] /= NoResponse
        /\ did[r].raised \in {"InferenceError", "RenderError"}
               => (did[r].predicts = 1 /\ IsBareFailure(r))

C9_Witness ==
    \E r1, r2 \in Requests :
        /\ r1 /= r2
        /\ Done(r1) /\ did[r1].raised = "InferenceError" /\ did[r1].predicts = 1
        /\ Done(r2) /\ did[r2].raised = "" /\ did[r2].predicts = 1

\* C10: for an upload of an unsupported content type neither handler reads or
\* decodes the upload or calls the engine, and the response carries none of
\* the detection headers.
C10_UnsupportedTypeNotProcessed ==
    \A r \in Requests :
        (pc[r] /= "idle" /\ Unsupported(r))
            => /\ ~did[r].read
               /\ ~did[r].decoded
               /\ did[r].predicts = 0
               /\ pc[r] /= "reading"
               /\ DOMAIN resp[r].headers \cap DetectionHeaders = {}

C10_Witness ==
    \E r \in Requests :
        /\ Done(r)
        /\ upload[r].content_type = "image/gif"
        /\ upload[r].endpoint = "/detect-json"
        /\ did[r].responses = 1
        /\ ~did[r].read

====
